---- MODULE Spec2Model ----
(***************************************************************************)
(* Model of dspy/utils/usage_tracker.py: the UsageTracker store            *)
(* (_flatten_usage_entry, _merge_usage_entries, add_usage,                 *)
(* get_total_tokens) and the track_usage scoped session.                   *)
(*                                                                         *)
(* Python dictionaries are mutable objects reached through references, so  *)
(* they live in a heap: heap[a] is the content of the dict at address a,   *)
(* a function from keys to values, and a dict-typed value is the reference *)
(* Ref(a).  Scalars (int, bool, str, None) are immutable values.           *)
(***************************************************************************)
EXTENDS Integers, Sequences, FiniteSets, TLC

VARIABLES
    heap,                    \* Seq of dict contents: the Python object heap
    usage_data,              \* usage_data[t][lm]: list of refs stored by tracker t
    ret,                     \* outcome of the last call: [v |-> value, exc |-> error name]
    last_call,               \* the last call made: [op, lm, n] (n = len of the record passed)
    added,                   \* history: added[lm] = values of the non-empty records passed to add_usage
    caller_r,                \* the record the caller keeps a reference to (None when it keeps none)
    mutations,               \* number of mutations the caller has made to caller_r
    n_calls,                 \* number of add_usage calls made so far
    m_e1, m_e2,              \* arguments of a direct _merge_usage_entries call
    settings_usage_tracker,  \* ambient settings.usage_tracker: 0 (None) or a tracker id
    context_stack,           \* open settings.context blocks: the overrides each one saved
    sessions,                \* open track_usage blocks: [tracker, prev], innermost last
    exc,                     \* "none" | "raised" (in a body) | "propagating" (out of a block)
    last_exit                \* how the last track_usage block exited: "none"|"normal"|"error"

vars == <<heap, usage_data, ret, last_call, added, caller_r, mutations, n_calls, m_e1, m_e2,
          settings_usage_tracker, context_stack, sessions, exc, last_exit>>

----------------------------------------------------------------------------
(* Python values *)

IntV(n) == [t |-> "int", i |-> n]
BoolV(x) == [t |-> "bool", b |-> x]
StrV(x) == [t |-> "str", s |-> x]
None == [t |-> "none"]
Ref(a) == [t |-> "dict", a |-> a]
\* a dict written out by value (a literal, or a dereferenced object)
DictT(f) == [t |-> "dict", d |-> f]

EmptyDict == [k \in {} |-> None]

\* isinstance(v, dict), isinstance(v, bool)
IsDict(v) == v.t = "dict"
IsBool(v) == v.t = "bool"

\* the outcome of an expression: the heap after it, its value, the error it raised
Ok(h, v) == [h |-> h, v |-> v, exc |-> "none"]
Raise(h, e) == [h |-> h, v |-> None, exc |-> e]

\* d[k] = v on the dict object d
SetItem(h, d, k, v) ==
    [h EXCEPT ![d.a] = [x \in DOMAIN h[d.a] \cup {k} |-> IF x = k THEN v ELSE h[d.a][x]]]

\* a new dict object with the given content
NewDict(h, content) == Ok(Append(h, content), Ref(Len(h) + 1))

\* variant of dict_: hands back the argument itself instead of a shallow copy
dict_alias(h, x) == Ok(h, x)

\* dict(x): a new dict with x's items (values shared, not copied); None and
\* numbers are not iterable, a non-empty string has no key/value pairs
dict_(h, x) ==
    IF IsDict(x) THEN NewDict(h, h[x.a])
    ELSE IF x.t = "str" THEN (IF x.s = "" THEN NewDict(h, EmptyDict) ELSE Raise(h, "ValueError"))
    ELSE Raise(h, "TypeError")

\* len(d)
len_(h, d) == Cardinality(DOMAIN h[d.a])

\* d.get(k)
get_(h, d, k) == IF k \in DOMAIN h[d.a] THEN h[d.a][k] ELSE None

\* truth value of v, as in `if v` and `v or w`
Truthy(h, v) ==
    CASE v.t = "int" -> v.i # 0
      [] v.t = "bool" -> v.b
      [] v.t = "str" -> v.s # ""
      [] v.t = "none" -> FALSE
      [] v.t = "dict" -> len_(h, v) > 0

\* x + y on scalars that are neither bool nor dict: TypeError unless both are
\* int or both are str
PyAdd(x, y) ==
    IF x.t = "int" /\ y.t = "int" THEN [v |-> IntV(x.i + y.i), exc |-> "none"]
    ELSE IF x.t = "str" /\ y.t = "str" THEN [v |-> StrV(x.s \o y.s), exc |-> "none"]
    ELSE [v |-> None, exc |-> "TypeError"]

----------------------------------------------------------------------------
(* UsageTracker._merge_usage_entries *)

\* variant of AddScalars: the first entry's value replaces the second's instead of being added
AddScalars_overwrite(v, rk) == IF v # None THEN v ELSE IntV(0)

\* lines 69-78: both values are scalars and neither is a bool
AddScalars(v, rk) ==
    LET v_value == IF v # None THEN v ELSE IntV(0)
        result_value == IF rk # None THEN rk ELSE IntV(0)
        sum == PyAdd(result_value, v_value)
    IN  IF sum.exc = "none" THEN sum.v
        ELSE IF result_value = None THEN v_value ELSE result_value

\* variant of BoolOr: conjunction instead of disjunction
BoolOr_and(h, v, rk) == BoolV(Truthy(h, v) /\ Truthy(h, rk))

\* line 67: bool(v or result[k])
BoolOr(h, v, rk) == BoolV(Truthy(h, v) \/ Truthy(h, rk))

\* variant of KeepDict: the mapping is lost instead of being kept
KeepDict_dropped(h, result, k, v) == Ok(h, None)

\* lines 58-60: v is a dict and result[k] is not: result[k] = dict(v)
KeepDict(h, result, k, v) ==
    LET c == dict_(h, v) IN
    IF c.exc # "none" THEN c ELSE Ok(SetItem(c.h, result, k, c.v), None)

RECURSIVE _merge_usage_entries(_, _, _)
RECURSIVE MergeItems(_, _, _, _)
RECURSIVE MergeItem(_, _, _, _)

\* lines 53-81: one iteration of the loop, for the item (k, v) of usage_entry1
MergeItem(h, result, k, v) ==
    IF k \in DOMAIN h[result.a] THEN
        LET rk == h[result.a][k] IN
        IF IsDict(v) /\ IsDict(rk) THEN
            LET m == _merge_usage_entries(h, v, rk) IN
            IF m.exc # "none" THEN m ELSE Ok(SetItem(m.h, result, k, m.v), None)
        ELSE IF IsDict(v) THEN
            KeepDict(h, result, k, v)
        ELSE IF IsDict(rk) THEN
            Ok(h, None)
        ELSE IF IsBool(v) \/ IsBool(rk) THEN
            Ok(SetItem(h, result, k, BoolOr(h, v, rk)), None)
        ELSE
            Ok(SetItem(h, result, k, AddScalars(v, rk)), None)
    ELSE
        Ok(SetItem(h, result, k, v), None)

\* line 52: the loop over usage_entry1.items(); ks are the keys still to visit
MergeItems(h, usage_entry1, result, ks) ==
    IF ks = {} THEN Ok(h, result)
    ELSE LET k == CHOOSE x \in ks : TRUE
             step == MergeItem(h, result, k, h[usage_entry1.a][k])
         IN  IF step.exc # "none" THEN step
             ELSE MergeItems(step.h, usage_entry1, result, ks \ {k})

\* lines 46-82
_merge_usage_entries(h, usage_entry1, usage_entry2) ==
    IF usage_entry1 = None \/ len_(h, usage_entry1) = 0 THEN dict_(h, usage_entry2)
    ELSE IF usage_entry2 = None \/ len_(h, usage_entry2) = 0 THEN dict_(h, usage_entry1)
    ELSE LET result == dict_(h, usage_entry2) IN
         IF result.exc # "none" THEN result
         ELSE MergeItems(result.h, usage_entry1, result.v, DOMAIN h[usage_entry1.a])

----------------------------------------------------------------------------
(* Reading and writing whole values *)

\* the value reached from v, dicts written out
RECURSIVE Deref(_, _)
Deref(h, v) ==
    IF IsDict(v) THEN DictT([k \in DOMAIN h[v.a] |-> Deref(h, h[v.a][k])]) ELSE v

\* evaluating a literal: every dict in it becomes a new object
RECURSIVE Alloc(_, _)
RECURSIVE AllocItems(_, _, _, _)
AllocItems(h, lit, ks, content) ==
    IF ks = {} THEN NewDict(h, content)
    ELSE LET k == CHOOSE x \in ks : TRUE
             c == Alloc(h, lit.d[k])
         IN  AllocItems(c.h, lit, ks \ {k},
                        [x \in DOMAIN content \cup {k} |-> IF x = k THEN c.v ELSE content[x]])
Alloc(h, lit) ==
    IF IsDict(lit) THEN AllocItems(h, lit, DOMAIN lit.d, EmptyDict) ELSE Ok(h, lit)

----------------------------------------------------------------------------
(* UsageTracker._flatten_usage_entry, add_usage, get_total_tokens *)

\* lines 26-27, 28-29: if result.get(key): result[key] = dict(result[key])
CopyDetail(h, result, key) ==
    IF Truthy(h, get_(h, result, key)) THEN
        LET c == dict_(h, h[result.a][key]) IN
        IF c.exc # "none" THEN c ELSE Ok(SetItem(c.h, result, key, c.v), result)
    ELSE Ok(h, result)

\* lines 23-30
_flatten_usage_entry(h, usage_entry) ==
    LET result == dict_(h, usage_entry) IN
    IF result.exc # "none" THEN result
    ELSE LET c == CopyDetail(result.h, result.v, "completion_tokens_details") IN
         IF c.exc # "none" THEN c
         ELSE CopyDetail(c.h, result.v, "prompt_tokens_details")

\* self.usage_data[lm] on the defaultdict(list): a missing key is created with []
DefaultList(ud, lm) ==
    [x \in DOMAIN ud \cup {lm} |-> IF x \in DOMAIN ud THEN ud[x] ELSE <<>>]

\* line 21: self.usage_data = defaultdict(list)
UsageTracker == EmptyDict

\* variant of add_usage: without the len(usage_entry) > 0 guard
add_usage_unguarded(h, ud, lm, usage_entry) ==
    LET flat == _flatten_usage_entry(h, usage_entry) IN
    [h |-> flat.h, ud |-> [DefaultList(ud, lm) EXCEPT ![lm] = Append(@, flat.v)], exc |-> flat.exc]

\* lines 84-87, on one tracker's usage_data; self.usage_data[lm] is evaluated
\* before the argument of append
add_usage(h, ud, lm, usage_entry) ==
    IF len_(h, usage_entry) > 0 THEN
        LET list == DefaultList(ud, lm)
            flat == _flatten_usage_entry(h, usage_entry)
        IN  IF flat.exc # "none" THEN [h |-> flat.h, ud |-> list, exc |-> flat.exc]
            ELSE [h |-> flat.h, ud |-> [list EXCEPT ![lm] = Append(@, flat.v)], exc |-> "none"]
    ELSE [h |-> h, ud |-> ud, exc |-> "none"]

\* lines 93-95: total_usage = {} and the loop over usage_entries, from index i on
RECURSIVE TotalUsage(_, _, _, _)
TotalUsage(h, total_usage, usage_entries, i) ==
    IF i > Len(usage_entries) THEN Ok(h, total_usage)
    ELSE LET m == _merge_usage_entries(h, total_usage, usage_entries[i]) IN
         IF m.exc # "none" THEN m ELSE TotalUsage(m.h, m.v, usage_entries, i + 1)

RECURSIVE TotalByLm(_, _, _, _)
\* variant of TotalByLm: one running total shared by all models
TotalByLm_shared(h, ud, lms, total_usage_by_lm) ==
    IF lms = {} THEN Ok(h, total_usage_by_lm)
    ELSE LET lm == CHOOSE x \in lms : TRUE
             start == IF DOMAIN total_usage_by_lm = {} THEN NewDict(h, EmptyDict)
                      ELSE Ok(h, total_usage_by_lm[CHOOSE x \in DOMAIN total_usage_by_lm : TRUE])
             total == TotalUsage(start.h, start.v, ud[lm], 1)
         IN  TotalByLm(total.h, ud, lms \ {lm},
                 [x \in DOMAIN total_usage_by_lm \cup {lm} |->
                     IF x = lm THEN total.v ELSE total_usage_by_lm[x]])

\* lines 92-96: the loop over usage_data.items(); lms are the keys still to visit
TotalByLm(h, ud, lms, total_usage_by_lm) ==
    IF lms = {} THEN Ok(h, total_usage_by_lm)
    ELSE LET lm == CHOOSE x \in lms : TRUE
             empty == NewDict(h, EmptyDict)
             total == TotalUsage(empty.h, empty.v, ud[lm], 1)
         IN  IF total.exc # "none" THEN total
             ELSE TotalByLm(total.h, ud, lms \ {lm},
                     [x \in DOMAIN total_usage_by_lm \cup {lm} |->
                         IF x = lm THEN total.v ELSE total_usage_by_lm[x]])

\* lines 89-97: the returned mapping, lm -> reference to its total
get_total_tokens(h, ud) == TotalByLm(h, ud, DOMAIN ud, EmptyDict)

----------------------------------------------------------------------------
(* Inputs: usage records as literals *)

LMs == {"gpt-4o-mini", "gpt-3.5-turbo"}

\* the dicts with keys among ks and values among vs
DictsOver(ks, vs) == {DictT(f) : f \in UNION {[K -> vs] : K \in SUBSET ks}}

\* the records rs, and each of them with the further key k set to a value of V
WithKey(rs, k, V) == rs \cup {DictT(r.d @@ (k :> v)) : r \in rs, v \in V}

\* the records with at most the two keys k1 (values V1) and k2 (values V2)
RecordsOver(k1, V1, k2, V2) == WithKey(WithKey({DictT(EmptyDict)}, k1, V1), k2, V2)

Scalars == {IntV(0), IntV(2), BoolV(TRUE), BoolV(FALSE), StrV(""), StrV("a"), None}
InnerDicts == DictsOver({"streaming"}, {IntV(1), BoolV(TRUE)})
NestedDicts == DictsOver({"total"}, Scalars \cup InnerDicts)
DetailDicts == DictsOver({"cached_tokens"}, {IntV(1)})

\* arguments of a direct _merge_usage_entries call: None or a record
MergeArgs ==
    {None} \cup RecordsOver("prompt_tokens", Scalars \cup NestedDicts,
                            "prompt_tokens_details", DetailDicts)

----------------------------------------------------------------------------
(* State common to the initial states *)

NoCall == [op |-> "init", lm |-> "", n |-> 0]

InitRest ==
    /\ ret = [v |-> None, exc |-> "none"]
    /\ last_call = NoCall
    /\ added = [lm \in LMs |-> <<>>]
    /\ mutations = 0
    /\ n_calls = 0
    /\ settings_usage_tracker = 0
    /\ context_stack = <<>>
    /\ sessions = <<>>
    /\ exc = "none"
    /\ last_exit = "none"

----------------------------------------------------------------------------
(* SpecMerge: _merge_usage_entries called directly on two arguments, as the  *)
(* tests do; the second argument may be the very object passed as the first *)

InitMerge ==
    /\ \E a \in MergeArgs, b \in MergeArgs, same \in BOOLEAN :
          LET x == Alloc(<<>>, a)
              y == IF same THEN x ELSE Alloc(x.h, b)
          IN  /\ (same => a = b)
              /\ heap = y.h
              /\ m_e1 = x.v
              /\ m_e2 = y.v
    /\ usage_data = <<>>
    /\ caller_r = None
    /\ InitRest

merge_call ==
    /\ last_call.op = "init"
    /\ \E m \in {_merge_usage_entries(heap, m_e1, m_e2)} :
          /\ heap' = m.h
          /\ ret' = [v |-> m.v, exc |-> m.exc]
    /\ last_call' = [op |-> "_merge_usage_entries", lm |-> "", n |-> 0]
    /\ UNCHANGED <<usage_data, added, caller_r, mutations, n_calls, m_e1, m_e2,
                   settings_usage_tracker, context_stack, sessions, exc, last_exit>>

NextMerge == merge_call

SpecMerge == InitMerge /\ [][NextMerge]_vars

----------------------------------------------------------------------------
(* Claims about _merge_usage_entries, checked under SpecMerge *)

\* a step that calls _merge_usage_entries on two records
MergesRecords ==
    /\ last_call.op = "init"
    /\ last_call'.op = "_merge_usage_entries"
    /\ IsDict(m_e1)
    /\ IsDict(m_e2)

\* the arguments before the call and the returned record, by value
ArgA == Deref(heap, m_e1).d
ArgB == Deref(heap, m_e2).d
Returned == Deref(heap, ret.v).d

\* the merge has returned a record
Merged == last_call.op = "_merge_usage_entries" /\ ret.exc = "none"

\* C4: for a key in both records where exactly one value is a nested record,
\* the merged value is that nested record, whichever argument had it; and a
\* key whose value in the first (accumulated) record is a nested record has a
\* nested record in the result.
C4_StructurePreference ==
    [][MergesRecords =>
        /\ ret'.exc = "none"
        /\ \A k \in DOMAIN ArgA \cap DOMAIN ArgB :
              /\ (IsDict(ArgA[k]) /\ ~IsDict(ArgB[k])) =>
                    (k \in DOMAIN Returned' /\ Returned'[k] = ArgA[k])
              /\ (~IsDict(ArgA[k]) /\ IsDict(ArgB[k])) =>
                    (k \in DOMAIN Returned' /\ Returned'[k] = ArgB[k])
        /\ \A k \in DOMAIN ArgA :
              IsDict(ArgA[k]) =>
                    (k \in DOMAIN Returned' /\ IsDict(Returned'[k]))]_vars

C4_Witness ==
    /\ Merged
    /\ IsDict(m_e1) /\ IsDict(m_e2)
    /\ "prompt_tokens" \in DOMAIN ArgA \cap DOMAIN ArgB
    /\ ArgA["prompt_tokens"] = DictT("total" :> IntV(2))
    /\ ArgB["prompt_tokens"] = StrV("a")
    /\ Returned["prompt_tokens"] = DictT("total" :> IntV(2))

\* what a scalar counts as when read as a boolean
AsBool(v) ==
    CASE v.t = "bool" -> v.b
      [] v.t = "int" -> v.i # 0
      [] v.t = "str" -> v.s # ""
      [] v.t = "none" -> FALSE

\* r holds the OR wherever a and b both have a key, neither value is a dict
\* and one is a bool; nested records met on the way are searched too
RECURSIVE OrHolds(_, _, _)
OrHolds(a, b, r) ==
    \A k \in DOMAIN a \cap DOMAIN b :
        /\ (~IsDict(a[k]) /\ ~IsDict(b[k]) /\ (IsBool(a[k]) \/ IsBool(b[k]))) =>
              (k \in DOMAIN r /\ r[k] = BoolV(AsBool(a[k]) \/ AsBool(b[k])))
        /\ (IsDict(a[k]) /\ IsDict(b[k])) =>
              (k \in DOMAIN r /\ IsDict(r[k]) /\ OrHolds(a[k].d, b[k].d, r[k].d))

\* C10: for a key in both records, at any depth, where neither value is a
\* nested record and at least one is a boolean, the merged value is the
\* boolean OR of the two values read as booleans.
C10_BooleanOr ==
    [][MergesRecords => (ret'.exc = "none" /\ OrHolds(ArgA, ArgB, Returned'))]_vars

C10_Witness ==
    /\ Merged
    /\ IsDict(m_e1) /\ IsDict(m_e2)
    /\ "prompt_tokens" \in DOMAIN ArgA \cap DOMAIN ArgB
    /\ ArgA["prompt_tokens"] = DictT("total" :> DictT("streaming" :> BoolV(TRUE)))
    /\ ArgB["prompt_tokens"] = DictT("total" :> DictT("streaming" :> IntV(1)))
    /\ Returned["prompt_tokens"] = DictT("total" :> DictT("streaming" :> BoolV(TRUE)))

\* one value is text and the other an integer or null
NonAddable(x, y) ==
    \/ x.t = "str" /\ y.t \in {"int", "none"}
    \/ y.t = "str" /\ x.t \in {"int", "none"}

\* C8: for a key in both records whose values cannot be added (text against
\* an integer or null), the merge raises nothing and the merged value is the
\* non-null operand (one of the two when neither is null).
C8_NonAddableScalars ==
    [][MergesRecords =>
        /\ ret'.exc = "none"
        /\ \A k \in DOMAIN ArgA \cap DOMAIN ArgB :
              NonAddable(ArgA[k], ArgB[k]) =>
                 /\ k \in DOMAIN Returned'
                 /\ (ArgA[k] = None => Returned'[k] = ArgB[k])
                 /\ (ArgB[k] = None => Returned'[k] = ArgA[k])
                 /\ Returned'[k] \in {ArgA[k], ArgB[k]}]_vars

\* an argument that is None or an empty record
Absent(h, e) == e = None \/ len_(h, e) = 0

\* C9: when at least one argument is None or an empty record, the merge
\* raises nothing and returns a new record equal to the other argument, an
\* empty record when both are None or empty.
C9_EmptyAbsentIdentity ==
    [][(last_call.op = "init" /\ last_call'.op = "_merge_usage_entries"
            /\ (Absent(heap, m_e1) \/ Absent(heap, m_e2))) =>
        /\ ret'.exc = "none"
        /\ IsDict(ret'.v)
        /\ ret'.v.a > Len(heap)
        /\ Returned' = (IF ~Absent(heap, m_e1) THEN ArgA
                        ELSE IF ~Absent(heap, m_e2) THEN ArgB
                        ELSE EmptyDict)]_vars

----------------------------------------------------------------------------
(* Spec: one tracker, constructed directly (tracker = UsageTracker()), that  *)
(* receives add_usage and get_total_tokens calls; each add_usage call        *)
(* passes a record the caller has just built                                 *)

MaxAdds == 3

StoreRecords ==
    RecordsOver("prompt_tokens", {IntV(1), IntV(2), DictT("total" :> IntV(2))},
                "prompt_tokens_details", {DictT("cached_tokens" :> IntV(1))})

Init ==
    /\ heap = <<>>
    /\ usage_data = <<UsageTracker>>
    /\ caller_r = None
    /\ m_e1 = None
    /\ m_e2 = None
    /\ InitRest

\* tracker.add_usage(lm, lit)
call_add_usage(lm, lit) ==
    /\ n_calls < MaxAdds
    /\ \E c \in {Alloc(heap, lit)} : \E r \in {add_usage(c.h, usage_data[1], lm, c.v)} :
           /\ heap' = r.h
           /\ usage_data' = [usage_data EXCEPT ![1] = r.ud]
           /\ ret' = [v |-> None, exc |-> r.exc]
           /\ last_call' = [op |-> "add_usage", lm |-> lm, n |-> Cardinality(DOMAIN lit.d)]
    /\ added' = IF lit.d # EmptyDict THEN [added EXCEPT ![lm] = Append(@, lit)] ELSE added
    /\ n_calls' = n_calls + 1
    /\ UNCHANGED <<caller_r, mutations, m_e1, m_e2,
                   settings_usage_tracker, context_stack, sessions, exc, last_exit>>

\* tracker.get_total_tokens(); the returned mapping is recorded by value, and
\* the objects created for it are the caller's, no longer part of the heap
\* the store can reach
call_get_total_tokens ==
    /\ \E g \in {get_total_tokens(heap, usage_data[1])} :
          /\ heap' = SubSeq(g.h, 1, Len(heap))
          /\ ret' = [v |-> (IF g.exc = "none"
                            THEN DictT([lm \in DOMAIN g.v |-> Deref(g.h, g.v[lm])])
                            ELSE None),
                     exc |-> g.exc]
    /\ last_call' = [op |-> "get_total_tokens", lm |-> "", n |-> 0]
    /\ UNCHANGED <<usage_data, added, caller_r, mutations, n_calls, m_e1, m_e2,
                   settings_usage_tracker, context_stack, sessions, exc, last_exit>>

Next ==
    \/ \E lm \in LMs, lit \in StoreRecords : call_add_usage(lm, lit)
    \/ call_get_total_tokens

Spec == Init /\ [][Next]_vars

----------------------------------------------------------------------------
(* Claims about the store, checked under Spec *)

\* the records stored for lm, by value
StoredOf(lm) ==
    IF lm \in DOMAIN usage_data[1]
    THEN [i \in 1..Len(usage_data[1][lm]) |-> Deref(heap, usage_data[1][lm][i])]
    ELSE <<>>

\* the whole store, by value: model ids, sequences, records, nested records
StoreView == [lm \in DOMAIN usage_data[1] |-> StoredOf(lm)]

\* get_total_tokens has just returned totals
GotTotals == last_call.op = "get_total_tokens" /\ ret.exc = "none"

\* a field: the path of keys leading to it
FieldNames == {"prompt_tokens", "prompt_tokens_details", "total", "cached_tokens"}
Fields == {<<k>> : k \in FieldNames} \cup {<<k, j>> : k \in FieldNames, j \in FieldNames}

\* the record carries the field
RECURSIVE Carries(_, _)
Carries(v, path) ==
    /\ IsDict(v)
    /\ Head(path) \in DOMAIN v.d
    /\ (Len(path) > 1 => Carries(v.d[Head(path)], Tail(path)))

\* the value of a field the record carries
RECURSIVE ValueAt(_, _)
ValueAt(v, path) ==
    IF Len(path) = 1 THEN v.d[Head(path)] ELSE ValueAt(v.d[Head(path)], Tail(path))

\* the arithmetic sum of an integer field over the records that carry it
RECURSIVE SumOf(_, _)
SumOf(records, path) ==
    IF records = <<>> THEN 0
    ELSE (IF Carries(Head(records), path) THEN ValueAt(Head(records), path).i ELSE 0)
             + SumOf(Tail(records), path)

\* C1: after get_total_tokens, every field (top-level or nested) that is an
\* integer in every record added under a model id that carries it is reported
\* as the arithmetic sum of its values over those records; the sum does not
\* depend on the order of the records, and every order is a reachable state.
C1_NumericAdditivity ==
    GotTotals =>
        \A lm \in LMs : \A path \in Fields :
            LET carriers == {i \in 1..Len(added[lm]) : Carries(added[lm][i], path)} IN
            (carriers # {} /\ \A i \in carriers : ValueAt(added[lm][i], path).t = "int") =>
                /\ lm \in DOMAIN ret.v.d
                /\ Carries(ret.v.d[lm], path)
                /\ ValueAt(ret.v.d[lm], path) = IntV(SumOf(added[lm], path))

C1_Witness ==
    /\ GotTotals
    /\ Len(added["gpt-4o-mini"]) = 3
    /\ added["gpt-4o-mini"][1] = DictT(("prompt_tokens" :> IntV(1))
                                         @@ ("prompt_tokens_details" :> DictT("cached_tokens" :> IntV(1))))
    /\ added["gpt-4o-mini"][2] = DictT("prompt_tokens" :> IntV(2))
    /\ added["gpt-4o-mini"][3] = DictT(("prompt_tokens" :> IntV(2))
                                         @@ ("prompt_tokens_details" :> DictT("cached_tokens" :> IntV(1))))
    /\ ret.v.d["gpt-4o-mini"] = DictT(("prompt_tokens" :> IntV(5))
                                         @@ ("prompt_tokens_details" :> DictT("cached_tokens" :> IntV(2))))

RECURSIVE FoldFrom(_, _, _, _)
FoldFrom(h, acc, records, i) ==
    IF i > Len(records) THEN Deref(h, acc)
    ELSE CHOOSE folded \in
            {FoldFrom(m.h, m.v, records, i + 1) :
                m \in {_merge_usage_entries(c.h, acc, c.v) : c \in {Alloc(h, records[i])}}} : TRUE
FoldAlone(records) == FoldFrom(<<EmptyDict>>, Ref(1), records, 1)

\* the total a tracker with store ud would report for lm ("absent" when it
\* has none)
TotalOf(h, ud, lm) ==
    CHOOSE total \in
        {IF lm \in DOMAIN g.v THEN Deref(g.h, g.v[lm]) ELSE [t |-> "absent"] :
            g \in {get_total_tokens(h, ud)}} : TRUE

\* C5: get_total_tokens returns an entry for exactly the model ids that
\* received a non-empty record, each equal to the merge fold of the records
\* added under that id alone; and a call that adds nothing under a model id
\* changes neither its stored sequence nor its total.
C5_MultiModelIsolation ==
    [][/\ GotTotals' =>
            /\ DOMAIN ret'.v.d = {lm \in LMs : added'[lm] # <<>>}
            /\ \A lm \in DOMAIN ret'.v.d : ret'.v.d[lm] = FoldAlone(added'[lm])
       /\ \A lm \in LMs :
            added'[lm] = added[lm] =>
                /\ StoredOf(lm)' = StoredOf(lm)
                /\ TotalOf(heap', usage_data'[1], lm) = TotalOf(heap, usage_data[1], lm)
      ]_vars

C5_Witness ==
    /\ GotTotals
    /\ Len(added["gpt-4o-mini"]) = 2
    /\ Len(added["gpt-3.5-turbo"]) = 1
    /\ ret.v.d["gpt-4o-mini"] = DictT("prompt_tokens" :> IntV(3))
    /\ ret.v.d["gpt-3.5-turbo"] = DictT("prompt_tokens" :> IntV(2))

\* C6: a get_total_tokens call leaves the store as it was (model ids,
\* sequences, records, nested records), and a second call right after the
\* first returns an equal result.
C6_ReadOnlyIdempotent ==
    [][last_call'.op = "get_total_tokens" =>
        /\ usage_data' = usage_data
        /\ StoreView' = StoreView
        /\ heap' = heap
        /\ (last_call.op = "get_total_tokens" => ret' = ret)]_vars

C6_Witness ==
    /\ GotTotals
    /\ Len(StoredOf("gpt-4o-mini")) = 2
    /\ StoredOf("gpt-4o-mini")[1] = DictT("prompt_tokens" :> DictT("total" :> IntV(2)))
    /\ StoredOf("gpt-4o-mini")[2] = DictT("prompt_tokens" :> DictT("total" :> IntV(2)))
    /\ ret.v.d["gpt-4o-mini"] = DictT("prompt_tokens" :> DictT("total" :> IntV(4)))

----------------------------------------------------------------------------
(* SpecCopy: the caller builds one record r, keeps its reference, passes it  *)
(* to add_usage and mutates it afterwards: its top-level fields, and the     *)
(* mappings under its two detail fields                                      *)

MaxMutations == 1

DetailKeys == {"prompt_tokens_details", "completion_tokens_details"}

CopyRecords ==
    WithKey(WithKey(WithKey({DictT(EmptyDict)},
        "prompt_tokens", {IntV(1)}),
        "prompt_tokens_details", {DictT(EmptyDict), DictT("cached_tokens" :> IntV(1)), None}),
        "completion_tokens_details", {DictT(EmptyDict), DictT("reasoning_tokens" :> IntV(1))})

InitCopy ==
    /\ \E lit \in CopyRecords :
          LET c == Alloc(<<>>, lit) IN heap = c.h /\ caller_r = c.v
    /\ usage_data = <<UsageTracker>>
    /\ m_e1 = None
    /\ m_e2 = None
    /\ InitRest

\* tracker.add_usage(lm, r)
call_add_usage_kept(lm) ==
    /\ n_calls < MaxAdds
    /\ \E r \in {add_usage(heap, usage_data[1], lm, caller_r)} :
          /\ heap' = r.h
          /\ usage_data' = [usage_data EXCEPT ![1] = r.ud]
          /\ ret' = [v |-> None, exc |-> r.exc]
    /\ last_call' = [op |-> "add_usage", lm |-> lm, n |-> len_(heap, caller_r)]
    /\ added' = IF len_(heap, caller_r) > 0
                THEN [added EXCEPT ![lm] = Append(@, Deref(heap, caller_r))]
                ELSE added
    /\ n_calls' = n_calls + 1
    /\ UNCHANGED <<caller_r, mutations, m_e1, m_e2,
                   settings_usage_tracker, context_stack, sessions, exc, last_exit>>

\* the caller's step r[k] = v, or del r[k] when v is "del", on the dict d
Mutate(d, k, v) ==
    /\ mutations < MaxMutations
    /\ heap' = IF v = [t |-> "del"]
               THEN [heap EXCEPT ![d.a] = [x \in DOMAIN heap[d.a] \ {k} |-> heap[d.a][x]]]
               ELSE SetItem(heap, d, k, v)
    /\ mutations' = mutations + 1
    /\ last_call' = [op |-> "mutate", lm |-> "", n |-> 0]
    /\ UNCHANGED <<usage_data, ret, added, caller_r, n_calls, m_e1, m_e2,
                   settings_usage_tracker, context_stack, sessions, exc, last_exit>>

\* r[k] = v or del r[k] on the caller's record
caller_mutates_top(k, v) ==
    /\ v = [t |-> "del"] => k \in DOMAIN heap[caller_r.a]
    /\ Mutate(caller_r, k, v)

\* r[dk][k] = v or del r[dk][k] on the mapping under a detail field of r
caller_mutates_detail(dk, k, v) ==
    /\ dk \in DOMAIN heap[caller_r.a]
    /\ IsDict(heap[caller_r.a][dk])
    /\ v = [t |-> "del"] => k \in DOMAIN heap[heap[caller_r.a][dk].a]
    /\ Mutate(heap[caller_r.a][dk], k, v)

NextCopy ==
    \/ \E lm \in LMs : call_add_usage_kept(lm)
    \/ \E k \in {"prompt_tokens"} \cup DetailKeys, v \in {IntV(7), [t |-> "del"]} :
          caller_mutates_top(k, v)
    \/ \E dk \in DetailKeys, k \in {"cached_tokens", "reasoning_tokens"},
          v \in {IntV(7), [t |-> "del"]} :
          caller_mutates_detail(dk, k, v)

SpecCopy == InitCopy /\ [][NextCopy]_vars

\* C7: add_usage(m, r) stores a new top-level mapping and, for every detail
\* field of r that is a mapping, a new copy of that mapping; so no later
\* mutation by the caller of r's top-level fields or of r's detail mappings
\* changes what the store holds.
C7_DefensiveCopy ==
    [][/\ (last_call'.op = "add_usage" /\ len_(heap, caller_r) > 0) =>
            LET lm == last_call'.lm
                stored == usage_data'[1][lm][Len(usage_data'[1][lm])]
            IN  /\ stored.a > Len(heap)
                /\ \A dk \in DetailKeys :
                      (dk \in DOMAIN heap[caller_r.a] /\ IsDict(heap[caller_r.a][dk])) =>
                          /\ IsDict(heap'[stored.a][dk])
                          /\ heap'[stored.a][dk].a > Len(heap)
                          /\ Deref(heap', heap'[stored.a][dk]) = Deref(heap, heap[caller_r.a][dk])
       /\ last_call'.op = "mutate" => StoreView' = StoreView
      ]_vars

----------------------------------------------------------------------------
(* SpecScope: track_usage blocks, nested, left normally or by an error       *)
(* raised in the body; inside a block the pipeline reports usage to the      *)
(* ambient tracker                                                           *)

MaxTrackers == 3
MaxDepth == 2

ScopeRecords == {DictT(EmptyDict), DictT("prompt_tokens" :> IntV(1))}

\* settings.context(usage_tracker=tracker), entering: the current value is
\* saved and the override takes its place
SettingsContextEnter(stack, current, tracker) ==
    [stack |-> Append(stack, current), usage_tracker |-> tracker]

\* settings.context, leaving (normally or by an error): the saved value is
\* put back
SettingsContextExit(stack, current) ==
    [stack |-> SubSeq(stack, 1, Len(stack) - 1), usage_tracker |-> stack[Len(stack)]]

\* variant of LeaveWith: the override is restored only on normal exit
LeaveWith_unprotected(stack, current, error) ==
    IF error THEN [stack |-> SubSeq(stack, 1, Len(stack) - 1), usage_tracker |-> current]
    ELSE SettingsContextExit(stack, current)

\* lines 105-106: control leaves the with statement, after the yield returned
\* (error = FALSE) or raised (error = TRUE)
LeaveWith(stack, current, error) == SettingsContextExit(stack, current)

InitScope ==
    /\ heap = <<>>
    /\ usage_data = <<>>
    /\ caller_r = None
    /\ m_e1 = None
    /\ m_e2 = None
    /\ InitRest

\* lines 103-106, up to the yield: with track_usage() as tracker
track_usage_enter ==
    /\ exc = "none"
    /\ Len(usage_data) < MaxTrackers
    /\ Len(sessions) < MaxDepth
    /\ LET tracker == Len(usage_data) + 1
           ctx == SettingsContextEnter(context_stack, settings_usage_tracker, tracker)
       IN  /\ usage_data' = Append(usage_data, UsageTracker)
           /\ context_stack' = ctx.stack
           /\ settings_usage_tracker' = ctx.usage_tracker
           /\ sessions' = Append(sessions, [tracker |-> tracker, prev |-> settings_usage_tracker])
    /\ last_call' = [op |-> "track_usage", lm |-> "", n |-> 0]
    /\ UNCHANGED <<heap, ret, added, caller_r, mutations, n_calls, m_e1, m_e2, exc, last_exit>>

\* lines 105-106, from the yield on: the innermost block is left, normally or
\* by the error raised in its body, which goes on to the enclosing code
track_usage_exit ==
    /\ sessions # <<>>
    /\ LET ctx == LeaveWith(context_stack, settings_usage_tracker, exc # "none") IN
          /\ context_stack' = ctx.stack
          /\ settings_usage_tracker' = ctx.usage_tracker
    /\ sessions' = SubSeq(sessions, 1, Len(sessions) - 1)
    /\ exc' = IF exc = "none" THEN "none" ELSE "propagating"
    /\ last_exit' = IF exc = "none" THEN "normal" ELSE "error"
    /\ last_call' = [op |-> "exit", lm |-> "", n |-> 0]
    /\ UNCHANGED <<heap, usage_data, ret, added, caller_r, mutations, n_calls, m_e1, m_e2>>

\* the body of the innermost block raises an error
body_raises ==
    /\ sessions # <<>>
    /\ exc = "none"
    /\ exc' = "raised"
    /\ last_call' = [op |-> "raise", lm |-> "", n |-> 0]
    /\ UNCHANGED <<heap, usage_data, ret, added, caller_r, mutations, n_calls, m_e1, m_e2,
                   settings_usage_tracker, context_stack, sessions, last_exit>>

\* code around a block that was left by an error catches the error
error_caught ==
    /\ exc = "propagating"
    /\ exc' = "none"
    /\ last_call' = [op |-> "except", lm |-> "", n |-> 0]
    /\ UNCHANGED <<heap, usage_data, ret, added, caller_r, mutations, n_calls, m_e1, m_e2,
                   settings_usage_tracker, context_stack, sessions, last_exit>>

\* settings.usage_tracker.add_usage(lm, lit), by code running inside a block
ambient_add_usage(lm, lit) ==
    /\ exc = "none"
    /\ settings_usage_tracker # 0
    /\ n_calls < MaxAdds
    /\ \E c \in {Alloc(heap, lit)} :
       \E r \in {add_usage(c.h, usage_data[settings_usage_tracker], lm, c.v)} :
           /\ heap' = r.h
           /\ usage_data' = [usage_data EXCEPT ![settings_usage_tracker] = r.ud]
           /\ ret' = [v |-> None, exc |-> r.exc]
    /\ last_call' = [op |-> "add_usage", lm |-> lm, n |-> Cardinality(DOMAIN lit.d)]
    /\ n_calls' = n_calls + 1
    /\ UNCHANGED <<added, caller_r, mutations, m_e1, m_e2,
                   settings_usage_tracker, context_stack, sessions, exc, last_exit>>

NextScope ==
    \/ track_usage_enter
    \/ track_usage_exit
    \/ body_raises
    \/ error_caught
    \/ \E lm \in LMs, lit \in ScopeRecords : ambient_add_usage(lm, lit)

SpecScope == InitScope /\ [][NextScope]_vars

\* the tracker of the innermost open block is the ambient one, and outside
\* every block the ambient value is the initial one
InnermostIsAmbient ==
    settings_usage_tracker = IF sessions = <<>> THEN 0 ELSE sessions[Len(sessions)].tracker

\* C2: entering track_usage makes a newly constructed, empty tracker the
\* ambient usage_tracker; leaving the block, normally or by an error, puts
\* back exactly the value the ambient usage_tracker had just before the block
\* was entered, nested blocks included, so the tracker of a block that was
\* left is not the ambient one.
C2_ScopedRestoration ==
    [][/\ Len(sessions') > Len(sessions) =>
            /\ settings_usage_tracker' = Len(usage_data')
            /\ settings_usage_tracker' > Len(usage_data)
            /\ usage_data'[settings_usage_tracker'] = EmptyDict
       /\ Len(sessions') < Len(sessions) =>
            /\ settings_usage_tracker' = sessions[Len(sessions)].prev
            /\ settings_usage_tracker' # sessions[Len(sessions)].tracker
       /\ InnermostIsAmbient'
      ]_vars

C2_Witness ==
    /\ exc = "propagating"
    /\ last_exit = "error"
    /\ Len(sessions) = 1
    /\ Len(usage_data) = 2
    /\ settings_usage_tracker = 1
    /\ sessions[1] = [tracker |-> 1, prev |-> 0]

====
